---- MODULE Spec2Model ----
(***************************************************************************)
(* DRIFT search primer (graphrag/query/structured_search/drift_search/    *)
(* primer.py): PrimerQueryProcessor.expand_query, DRIFTPrimer.split_reports*)
(* DRIFTPrimer.decompose_query and DRIFTPrimer.asearch, with the asyncio  *)
(* fan-out / fan-in of tqdm_asyncio.gather.                               *)
(*                                                                         *)
(* Text is a sequence of one-character strings.  Report indices are       *)
(* 0-based as in the code; TLA+ sequences are 1-based, so report j of the *)
(* code is top_k_reports[j + 1] and fold i is report_folds[i + 1].        *)
(* completion_time (wall clock) is not modelled.                          *)
(***************************************************************************)
EXTENDS Integers, Sequences, FiniteSets, TLC

VARIABLES
    pc,               \* position of the asearch coroutine
    query,            \* asearch argument
    top_k_reports,    \* asearch argument: sequence of full_content texts
    primer_folds,     \* config.primer_folds: <<>> when unset, else <<c>>
    report_folds,     \* list returned by split_reports: [start, end) ranges
    tasks,            \* status of each fold's decompose_query task
    prompts,          \* prompts[i]: sequence of prompts sent to agenerate by task i
    raw,              \* raw[i]: sequence holding the raw response task i received
    done_q,           \* as_completed's queue: finished wrappers, completion order
    res,              \* gather's list of (i, result), in completion order
    result,           \* <<>> or <<SearchResult>> returned by asearch
    error,            \* exception propagated out of asearch, "none" if none
    eq_pc,            \* position of expand_query
    eq_query,         \* expand_query argument
    eq_reports,       \* PrimerQueryProcessor.reports
    eq_template,      \* template chosen by secrets.choice
    eq_text,          \* text returned by chat_llm.generate
    eq_ret            \* <<>> or <<text, token_ct>> returned by expand_query

vars == <<pc, query, top_k_reports, primer_folds, report_folds, tasks, prompts,
          raw, done_q, res, result, error,
          eq_pc, eq_query, eq_reports, eq_template, eq_text, eq_ret>>

asearch_vars == <<pc, query, top_k_reports, primer_folds, report_folds, tasks,
                  prompts, raw, done_q, res, result, error>>

expand_vars == <<eq_pc, eq_query, eq_reports, eq_template, eq_text, eq_ret>>

---------------------------------------------------------------------------
(* Bounds of the model *)

MaxReports == 3
MaxFolds == 3
SplitMaxReports == 10
SplitMaxFolds == 5
MaxQueryLen == 2

---------------------------------------------------------------------------
(* Text helpers *)

Chars == {"a", "b"}

RECURSIVE Texts(_)
Texts(len) ==
    IF len = 0 THEN {<<>>}
    ELSE LET shorter == Texts(len - 1)
         IN shorter \cup {Append(t, c) : t \in {s \in shorter : Len(s) = len - 1},
                                         c \in Chars}

\* full_content of report j (0-based) of the corpus
FullContent(j) == IF j % 2 = 0 THEN <<"a">> ELSE <<"a", "b">>

\* a ranked corpus of n reports
Corpus(n) == [j \in 1..n |-> FullContent(j - 1)]

\* "\n\n".join(parts)
RECURSIVE Join(_)
Join(parts) ==
    IF Len(parts) = 0 THEN <<>>
    ELSE IF Len(parts) = 1 THEN parts[1]
    ELSE parts[1] \o <<"\n\n">> \o Join(Tail(parts))

\* num_tokens(text, encoder): a subword tokenizer that merges a doubled
\* character into one token, so counts are not additive over concatenation
RECURSIVE num_tokens(_)
num_tokens(text) ==
    IF Len(text) = 0 THEN 0
    ELSE IF Len(text) >= 2 /\ text[1] = text[2]
         THEN 1 + num_tokens(SubSeq(text, 3, Len(text)))
         ELSE 1 + num_tokens(Tail(text))

\* DRIFT_PRIMER_PROMPT.format(query=..., community_reports=...)
DRIFT_PRIMER_PROMPT(q, community_reports) ==
    <<"P">> \o q \o <<"C">> \o community_reports

\* json.loads succeeds exactly on an object: "{" keys "}"
IsJson(s) ==
    /\ Len(s) >= 2
    /\ s[1] = "{"
    /\ s[Len(s)] = "}"
    /\ \A j \in 2..(Len(s) - 1) : s[j] \in Chars

\* json.loads(s) for a valid s: the dict, as its set of keys
json_loads(s) == {s[j] : j \in 2..(Len(s) - 1)}

\* what agenerate may return in structured-output mode
RawResponses == {<<"{", "}">>, <<"{", "a", "}">>, <<"a">>}

---------------------------------------------------------------------------
(* split_reports *)

ConfiguredFolds == {<<>>} \cup {<<c>> : c \in 0..MaxFolds}

\* self.config.primer_folds or 1
EffectiveFoldsNoDefault(cfg) == IF cfg = <<>> THEN 1 ELSE cfg[1]

EffectiveFolds(cfg) == IF cfg = <<>> \/ cfg[1] = 0 THEN 1 ELSE cfg[1]

\* the remainder of n / k all goes to the last fold
FoldRangeChunked(i, n, k) ==
    [start |-> i * (n \div k),
     end   |-> IF i = k - 1 THEN n ELSE (i + 1) * (n \div k)]

\* fold boundaries rounded up instead of down
FoldRangeCeil(i, n, k) ==
    [start |-> (i * n + k - 1) \div k,
     end   |-> IF i = k - 1 THEN n ELSE ((i + 1) * n + k - 1) \div k]

\* start_idx and end_idx of fold i (0-based)
FoldRange(i, n, k) ==
    [start |-> (i * n) \div k,
     end   |-> IF i = k - 1 THEN n ELSE ((i + 1) * n) \div k]

\* split_reports(reports): the list of folds as index ranges
split_reports(reports, cfg) ==
    LET num_reports == Len(reports)
        k == EffectiveFolds(cfg)
    IN [f \in 1..k |-> FoldRange(f - 1, num_reports, k)]

\* reports.iloc[start_idx:end_idx]
Iloc(reports, fold) == SubSeq(reports, fold.start + 1, fold.end)

---------------------------------------------------------------------------
(* decompose_query *)

\* what a finished task hands to gather: (i, (parsed_response, token_ct)) or
\* the exception it raised
Outcome(i, ok, response, tokens, exc) ==
    [idx |-> i, ok |-> ok, response |-> response, tokens |-> tokens, exc |-> exc]

\* community_reports = "\n\n".join(reports["full_content"].tolist())
community_reports(fold_reports) == Join(fold_reports)

\* the prompt decompose_query builds for fold f (1-based position in report_folds)
PromptOf(f) ==
    DRIFT_PRIMER_PROMPT(query, community_reports(Iloc(top_k_reports, report_folds[f])))

\* token_ct = num_tokens(prompt + response, self.token_encoder)
TokenCt(prompt, response) == num_tokens(prompt \o response)

\* an empty fold is answered locally, without a model invocation
DecomposeStartSkipEmpty(f) ==
    /\ f \in 1..Len(tasks)
    /\ tasks[f] = "scheduled"
    /\ IF report_folds[f].start = report_folds[f].end
       THEN /\ tasks' = [tasks EXCEPT ![f] = "done"]
            /\ raw' = [raw EXCEPT ![f] = <<<<"{", "}">>>>]
            /\ done_q' = Append(done_q, Outcome(f - 1, TRUE, {}, 0, "none"))
            /\ UNCHANGED prompts
       ELSE /\ tasks' = [tasks EXCEPT ![f] = "awaiting"]
            /\ prompts' = [prompts EXCEPT ![f] = Append(@, PromptOf(f))]
            /\ UNCHANGED <<raw, done_q>>
    /\ UNCHANGED <<pc, query, top_k_reports, primer_folds, report_folds, res,
                   result, error, expand_vars>>

\* a fold's invocation is issued only once every earlier fold has finished
DecomposeStartSequential(f) ==
    /\ f \in 1..Len(tasks)
    /\ tasks[f] = "scheduled"
    /\ \A g \in 1..(f - 1) : tasks[g] \in {"done", "failed"}
    /\ tasks' = [tasks EXCEPT ![f] = "awaiting"]
    /\ prompts' = [prompts EXCEPT ![f] = Append(@, PromptOf(f))]
    /\ UNCHANGED <<pc, query, top_k_reports, primer_folds, report_folds, raw,
                   done_q, res, result, error, expand_vars>>

\* the task of fold f runs up to its await: builds the prompt and issues
\* self.llm.agenerate(messages, response_format={"type": "json_object"})
DecomposeStart(f) ==
    /\ f \in 1..Len(tasks)
    /\ tasks[f] = "scheduled"
    /\ tasks' = [tasks EXCEPT ![f] = "awaiting"]
    /\ prompts' = [prompts EXCEPT ![f] = Append(@, PromptOf(f))]
    /\ UNCHANGED <<pc, query, top_k_reports, primer_folds, report_folds, raw,
                   done_q, res, result, error, expand_vars>>

\* agenerate returns r to the task of fold f, which parses it, counts the
\* tokens and returns; a parse failure is raised out of the task
AgenerateReturn(f, r) ==
    /\ f \in 1..Len(tasks)
    /\ tasks[f] = "awaiting"
    /\ raw' = [raw EXCEPT ![f] = <<r>>]
    /\ IF IsJson(r)
       THEN /\ tasks' = [tasks EXCEPT ![f] = "done"]
            /\ done_q' = Append(done_q,
                   Outcome(f - 1, TRUE, json_loads(r),
                           TokenCt(prompts[f][Len(prompts[f])], r), "none"))
       ELSE /\ tasks' = [tasks EXCEPT ![f] = "failed"]
            /\ done_q' = Append(done_q,
                   Outcome(f - 1, FALSE, {}, 0, "JSONDecodeError"))
    /\ UNCHANGED <<pc, query, top_k_reports, primer_folds, report_folds, prompts,
                   res, result, error, expand_vars>>

\* agenerate raises (transport error, timeout) in the task of fold f
AgenerateRaise(f) ==
    /\ f \in 1..Len(tasks)
    /\ tasks[f] = "awaiting"
    /\ tasks' = [tasks EXCEPT ![f] = "failed"]
    /\ done_q' = Append(done_q, Outcome(f - 1, FALSE, {}, 0, "LLMError"))
    /\ UNCHANGED <<pc, query, top_k_reports, primer_folds, report_folds, prompts,
                   raw, res, result, error, expand_vars>>

---------------------------------------------------------------------------
(* asearch *)

\* report_folds = self.split_reports(top_k_reports)
AsearchSplit ==
    /\ pc = "start"
    /\ report_folds' = split_reports(top_k_reports, primer_folds)
    /\ pc' = "split"
    /\ UNCHANGED <<query, top_k_reports, primer_folds, tasks, prompts, raw,
                   done_q, res, result, error, expand_vars>>

\* tasks = [self.decompose_query(query, fold) for fold in report_folds]:
\* one coroutine object per fold, none of them started
AsearchCreateTasks ==
    /\ pc = "split"
    /\ tasks' = [f \in 1..Len(report_folds) |-> "created"]
    /\ prompts' = [f \in 1..Len(report_folds) |-> <<>>]
    /\ raw' = [f \in 1..Len(report_folds) |-> <<>>]
    /\ pc' = "tasks"
    /\ UNCHANGED <<query, top_k_reports, primer_folds, report_folds, done_q, res,
                   result, error, expand_vars>>

\* await tqdm_asyncio.gather(*tasks): every coroutine is wrapped with its
\* index and scheduled, then asearch suspends
AsearchGather ==
    /\ pc = "tasks"
    /\ tasks' = [f \in 1..Len(tasks) |-> "scheduled"]
    /\ pc' = "gather"
    /\ UNCHANGED <<query, top_k_reports, primer_folds, report_folds, prompts, raw,
                   done_q, res, result, error, expand_vars>>

\* a failed task's exception is kept in the list like a result
GatherAwaitKeepExceptions ==
    /\ pc = "gather"
    /\ Len(done_q) > 0
    /\ done_q' = Tail(done_q)
    /\ res' = Append(res, Head(done_q))
    /\ UNCHANGED <<pc, error, query, top_k_reports, primer_folds, report_folds,
                   tasks, prompts, raw, result, expand_vars>>

\* res = [await f for f in as_completed(ifs)]: the next finished wrapper is
\* awaited; its (i, result) is appended, or its exception leaves asearch
GatherAwait ==
    /\ pc = "gather"
    /\ Len(done_q) > 0
    /\ done_q' = Tail(done_q)
    /\ IF Head(done_q).ok
       THEN /\ res' = Append(res, Head(done_q))
            /\ UNCHANGED <<pc, error>>
       ELSE /\ pc' = "failed"
            /\ error' = Head(done_q).exc
            /\ UNCHANGED res
    /\ UNCHANGED <<query, top_k_reports, primer_folds, report_folds, tasks,
                   prompts, raw, result, expand_vars>>

\* the list in the order the tasks finished
InCompletionOrder(seq) == seq

\* sorted(res) by the index i each wrapper carries (insertion sort)
RECURSIVE SortedByIndex(_)
SortedByIndex(seq) ==
    IF Len(seq) <= 1 THEN seq
    ELSE LET rest == SortedByIndex(Tail(seq))
             lower == SelectSeq(rest, LAMBDA o : o.idx < Head(seq).idx)
             upper == SelectSeq(rest, LAMBDA o : ~(o.idx < Head(seq).idx))
         IN lower \o <<Head(seq)>> \o upper

\* only the first fold's tokens are counted
SumTokensFirstOnly(results) ==
    IF Len(results) = 0 THEN 0 ELSE results[1].tokens

\* sum(tokens for _, tokens in results_with_tokens)
RECURSIVE SumTokens(_)
SumTokens(results) ==
    IF Len(results) = 0 THEN 0
    ELSE results[1].tokens + SumTokens(Tail(results))

\* str(top_k_reports)
StrOf(reports) == Join(reports)

\* SearchResult(...) of lines 170-177
SearchResult(results_with_tokens) ==
    [response      |-> [f \in 1..Len(results_with_tokens) |->
                            results_with_tokens[f].response],
     context_data  |-> top_k_reports,
     context_text  |-> StrOf(top_k_reports),
     llm_calls     |-> 2,
     prompt_tokens |-> SumTokens(results_with_tokens)]

\* gather returns [i for _, i in sorted(res)] once every wrapper was awaited,
\* and asearch builds and returns the SearchResult
AsearchReturn ==
    /\ pc = "gather"
    /\ Len(res) = Len(tasks)
    /\ result' = <<SearchResult(SortedByIndex(res))>>
    /\ pc' = "done"
    /\ UNCHANGED <<query, top_k_reports, primer_folds, report_folds, tasks,
                   prompts, raw, done_q, res, error, expand_vars>>

AsearchQueries == {<<"a">>, <<"b", "b">>}

ExpandIdle ==
    /\ eq_pc = "unused"
    /\ eq_query = <<>>
    /\ eq_reports = <<>>
    /\ eq_template = <<>>
    /\ eq_text = <<>>
    /\ eq_ret = <<>>

Init ==
    /\ pc = "start"
    /\ query \in AsearchQueries
    /\ top_k_reports \in {Corpus(n) : n \in 0..MaxReports}
    /\ primer_folds \in ConfiguredFolds
    /\ report_folds = <<>>
    /\ tasks = <<>>
    /\ prompts = <<>>
    /\ raw = <<>>
    /\ done_q = <<>>
    /\ res = <<>>
    /\ result = <<>>
    /\ error = "none"
    /\ ExpandIdle

Next ==
    \/ AsearchSplit
    \/ AsearchCreateTasks
    \/ AsearchGather
    \/ \E f \in 1..MaxFolds : DecomposeStart(f)
    \/ \E f \in 1..MaxFolds : \E r \in RawResponses : AgenerateReturn(f, r)
    \/ \E f \in 1..MaxFolds : AgenerateRaise(f)
    \/ GatherAwait
    \/ AsearchReturn

Spec == Init /\ [][Next]_vars

---------------------------------------------------------------------------
(* split_reports alone, over larger corpora and fold counts *)

InitSplit ==
    /\ pc = "start"
    /\ query = <<"a">>
    /\ top_k_reports \in {Corpus(n) : n \in 0..SplitMaxReports}
    /\ primer_folds \in {<<>>} \cup {<<c>> : c \in 0..SplitMaxFolds}
    /\ report_folds = <<>>
    /\ tasks = <<>>
    /\ prompts = <<>>
    /\ raw = <<>>
    /\ done_q = <<>>
    /\ res = <<>>
    /\ result = <<>>
    /\ error = "none"
    /\ ExpandIdle

NextSplit == AsearchSplit

SplitSpec == InitSplit /\ [][NextSplit]_vars

---------------------------------------------------------------------------
(* asearch under the scheduling of the event loop: every runnable step is
   eventually run, and every model invocation eventually returns or raises *)

LiveSpec ==
    /\ Init
    /\ [][Next]_vars
    /\ WF_vars(AsearchSplit)
    /\ WF_vars(AsearchCreateTasks)
    /\ WF_vars(AsearchGather)
    /\ \A f \in 1..MaxFolds : WF_vars(DecomposeStart(f))
    /\ \A f \in 1..MaxFolds :
           WF_vars((\E r \in RawResponses : AgenerateReturn(f, r)) \/ AgenerateRaise(f))
    /\ WF_vars(GatherAwait)
    /\ WF_vars(AsearchReturn)

---------------------------------------------------------------------------
(* PrimerQueryProcessor.expand_query *)

\* what chat_llm.generate may return
ExpandTexts == Texts(MaxQueryLen)

\* the count is left at its initial 0 when the expansion failed
ExpandTokenCtInitial(text, q) ==
    IF text = <<>> THEN 0 ELSE num_tokens(text \o q)

\* token_ct = num_tokens(text + query)
ExpandTokenCt(text, q) == num_tokens(text \o q)

\* template = secrets.choice(self.reports).full_content; IndexError on an
\* empty list
ExpandChoose ==
    /\ eq_pc = "start"
    /\ IF Len(eq_reports) = 0
       THEN /\ eq_pc' = "raised"
            /\ UNCHANGED eq_template
       ELSE /\ \E j \in 1..Len(eq_reports) : eq_template' = eq_reports[j]
            /\ eq_pc' = "prompted"
    /\ UNCHANGED <<eq_query, eq_reports, eq_text, eq_ret, asearch_vars>>

\* text = self.chat_llm.generate(messages)
ExpandGenerate(text) ==
    /\ eq_pc = "prompted"
    /\ eq_text' = text
    /\ eq_pc' = "generated"
    /\ UNCHANGED <<eq_query, eq_reports, eq_template, eq_ret, asearch_vars>>

\* lines 75-79: count the tokens, fall back to the query on an empty text
ExpandReturn ==
    /\ eq_pc = "generated"
    /\ LET token_ct == ExpandTokenCt(eq_text, eq_query)
       IN eq_ret' = IF eq_text = <<>> THEN <<eq_query, token_ct>>
                                       ELSE <<eq_text, token_ct>>
    /\ eq_pc' = "returned"
    /\ UNCHANGED <<eq_query, eq_reports, eq_template, eq_text, asearch_vars>>

InitExpand ==
    /\ pc = "unused"
    /\ query = <<>>
    /\ top_k_reports = <<>>
    /\ primer_folds = <<>>
    /\ report_folds = <<>>
    /\ tasks = <<>>
    /\ prompts = <<>>
    /\ raw = <<>>
    /\ done_q = <<>>
    /\ res = <<>>
    /\ result = <<>>
    /\ error = "none"
    /\ eq_pc = "start"
    /\ eq_query \in Texts(MaxQueryLen)
    /\ eq_reports \in {Corpus(n) : n \in 0..MaxReports}
    /\ eq_template = <<>>
    /\ eq_text = <<>>
    /\ eq_ret = <<>>

NextExpand ==
    \/ ExpandChoose
    \/ \E text \in ExpandTexts : ExpandGenerate(text)
    \/ ExpandReturn

ExpandSpec == InitExpand /\ [][NextExpand]_vars

---------------------------------------------------------------------------
(* Properties *)

\* the fold count the configuration asks for: c when c >= 1, else 1
WantedFolds ==
    IF primer_folds # <<>> /\ primer_folds[1] >= 1 THEN primer_folds[1] ELSE 1

NumReports == Len(top_k_reports)

FoldSize(f) == report_folds[f].end - report_folds[f].start

\* the report indices start, ..., end - 1 of a fold
IndexRange(fold) == [j \in 1..(fold.end - fold.start) |-> fold.start + j - 1]

RECURSIVE ConcatRanges(_)
ConcatRanges(folds) ==
    IF Len(folds) = 0 THEN <<>>
    ELSE IndexRange(folds[1]) \o ConcatRanges(Tail(folds))

\* C1: split_reports returns exactly k folds (k = c when c >= 1, 1 when c is
\* 0 or unset); the first starts at 0, the last ends at n, each fold ends
\* where the next starts, start <= end, and the concatenation of the folds'
\* index ranges is 0, 1, ..., n - 1: every index exactly once, in order.
C1_PartitionCoverage ==
    pc = "split" =>
        /\ Len(report_folds) = WantedFolds
        /\ report_folds[1].start = 0
        /\ report_folds[WantedFolds].end = NumReports
        /\ \A f \in 1..WantedFolds : report_folds[f].start <= report_folds[f].end
        /\ \A f \in 1..(WantedFolds - 1) :
               report_folds[f].end = report_folds[f + 1].start
        /\ ConcatRanges(report_folds) = [j \in 1..NumReports |-> j - 1]

C1_Witness ==
    /\ pc = "split"
    /\ primer_folds = <<0>>
    /\ NumReports = 7
    /\ report_folds = <<[start |-> 0, end |-> 7]>>

\* C2: the sizes of any two folds of one split_reports call differ by at
\* most one; 10 reports in 3 folds give [0,3), [3,6), [6,10).
C2_PartitionBalance ==
    pc = "split" =>
        /\ \A f, g \in 1..Len(report_folds) : FoldSize(f) - FoldSize(g) <= 1
        /\ (NumReports = 10 /\ primer_folds = <<3>>) =>
               report_folds = <<[start |-> 0, end |-> 3],
                                [start |-> 3, end |-> 6],
                                [start |-> 6, end |-> 10]>>

C2_Witness ==
    /\ pc = "split"
    /\ NumReports = 10
    /\ primer_folds = <<3>>
    /\ FoldSize(1) = 3 /\ FoldSize(2) = 3 /\ FoldSize(3) = 4

\* C9 as stated: no empty fold precedes a non-empty fold.
C9_EmptyFoldsTrailing ==
    pc = "split" =>
        \A f, g \in 1..Len(report_folds) :
            (f < g /\ FoldSize(f) = 0) => FoldSize(g) = 0

\* C9 as amended: when the fold count exceeds a non-empty corpus, the first
\* fold is empty and the last fold is not; exactly n folds are non-empty,
\* each holding one report, and the other k - n folds are empty.
C9_EmptyFoldsLeading ==
    (pc = "split" /\ Len(report_folds) > NumReports /\ NumReports >= 1) =>
        /\ FoldSize(1) = 0
        /\ FoldSize(Len(report_folds)) = 1
        /\ \A f \in 1..Len(report_folds) : FoldSize(f) \in {0, 1}
        /\ Cardinality({f \in 1..Len(report_folds) : FoldSize(f) = 1}) = NumReports

C9_Witness ==
    /\ pc = "split"
    /\ NumReports = 2
    /\ Len(report_folds) = 5
    /\ FoldSize(1) = 0 /\ FoldSize(2) = 0 /\ FoldSize(3) = 1
    /\ FoldSize(4) = 0 /\ FoldSize(5) = 1

Folds == 1..Len(tasks)

Finished(f) == tasks[f] \in {"done", "failed"}

\* C3: the i-th entry of the returned response list is the parsed raw
\* response that fold i's invocation received, whatever order the fold
\* tasks finished in.
C3_ResponseInFoldOrder ==
    pc = "done" =>
        /\ Len(result[1].response) = Len(tasks)
        /\ \A f \in Folds : result[1].response[f] = json_loads(raw[f][1])

\* two folds with different responses, finished in the reverse of launch order
C3_Witness ==
    /\ pc = "done"
    /\ Len(tasks) >= 2
    /\ \A j \in 1..Len(res) : res[j].idx = Len(res) - j
    /\ json_loads(raw[1][1]) # json_loads(raw[2][1])

\* the exception fold f's task raised, "none" if it raised none
RaisedBy(f) ==
    IF tasks[f] # "failed" THEN "none"
    ELSE IF raw[f] = <<>> THEN "LLMError" ELSE "JSONDecodeError"

C4_Safety ==
    /\ (\E f \in Folds : tasks[f] = "failed") => (result = <<>> /\ pc # "done")
    /\ pc = "gather" =>
           \A f \in Folds : tasks[f] = "failed" =>
               \E j \in 1..Len(done_q) : done_q[j].idx = f - 1
    /\ pc = "failed" =>
           /\ result = <<>>
           /\ \E f \in Folds : RaisedBy(f) = error
    /\ result # <<>> => pc = "done"

\* C4: once a fold's decomposition has failed, asearch never returns a
\* SearchResult (a failure is never consumed while asearch keeps waiting),
\* asearch eventually ends in failure, and the exception it raises is one a
\* fold task raised.
C4_AllOrNothing ==
    /\ []C4_Safety
    /\ (\E f \in Folds : tasks[f] = "failed") ~> (pc = "failed" /\ error # "none")

\* asearch failed on a decode error although another fold had succeeded
C4_Witness ==
    /\ pc = "failed"
    /\ error = "JSONDecodeError"
    /\ result = <<>>
    /\ Len(res) >= 1
    /\ \E f \in Folds : tasks[f] = "done"

\* tokens of fold f's prompt plus the raw response it received
FoldTokens(f) == num_tokens(prompts[f][1] \o raw[f][1])

RECURSIVE SumFoldTokens(_)
SumFoldTokens(n) == IF n = 0 THEN 0 ELSE FoldTokens(n) + SumFoldTokens(n - 1)

\* C6: the prompt_tokens of a returned SearchResult is the sum over all
\* folds of the tokens of that fold's prompt plus raw response, each fold
\* counted once.
C6_TokenAggregation ==
    pc = "done" =>
        /\ \A f \in Folds : Len(prompts[f]) = 1 /\ Len(raw[f]) = 1
        /\ result[1].prompt_tokens = SumFoldTokens(Len(tasks))

C6_Witness ==
    /\ pc = "done"
    /\ Len(tasks) >= 2
    /\ res[1].idx # 0
    /\ FoldTokens(1) # FoldTokens(2)
    /\ result[1].prompt_tokens = SumFoldTokens(Len(tasks))

\* C8: a scheduled fold task can always issue its invocation at once,
\* whatever the state of the other folds' invocations, and no invocation is
\* issued before asearch reaches the join.
C8_NoWaitBetweenLaunches ==
    /\ \A f \in Folds : tasks[f] = "scheduled" => ENABLED DecomposeStart(f)
    /\ pc \in {"start", "split", "tasks"} =>
           \A f \in Folds : tasks[f] = "created" /\ prompts[f] = <<>>

\* every fold's invocation outstanding at once
C8_Witness ==
    /\ pc = "gather"
    /\ Len(tasks) >= 2
    /\ \A f \in Folds : tasks[f] = "awaiting"

\* C10: after asearch has failed, no other fold task is still in flight.
C10_OthersCancelled ==
    pc = "failed" => \A f \in Folds : Finished(f)

FoldIsEmpty(f) == report_folds[f].start = report_folds[f].end

C7_Safety ==
    /\ Len(tasks) \in {0, WantedFolds}
    /\ \A f \in Folds :
           /\ Len(prompts[f]) <= 1
           /\ tasks[f] \in {"awaiting", "done", "failed"} => Len(prompts[f]) = 1
           /\ (Len(prompts[f]) = 1 /\ FoldIsEmpty(f)) =>
                  prompts[f][1] = DRIFT_PRIMER_PROMPT(query, <<>>)
    /\ pc = "done" =>
           /\ Len(result[1].response) = WantedFolds
           /\ \A f \in Folds : Len(prompts[f]) = 1

\* C7: each fold gets exactly one invocation, an empty fold one whose
\* context block is empty; and if no fold's decomposition ever fails,
\* asearch eventually returns a SearchResult whose response has k entries.
C7_EmptyFoldsComplete ==
    /\ []C7_Safety
    /\ ([](\A f \in Folds : tasks[f] # "failed")) =>
           <>(pc = "done" /\ Len(result[1].response) = WantedFolds)

\* asearch returned although an empty fold preceded a non-empty one
C7_Witness ==
    /\ pc = "done"
    /\ Len(tasks) > NumReports
    /\ FoldIsEmpty(1)
    /\ Len(prompts[1]) = 1
    /\ Len(result[1].response) = Len(tasks)

\* C5 as stated: on an empty completion expand_query returns the query and
\* the token count of the query concatenated with itself.
C5_QueryCountedTwice ==
    (eq_pc = "returned" /\ eq_text = <<>>) =>
        eq_ret = <<eq_query, num_tokens(eq_query \o eq_query)>>

\* C5 as amended: on an empty completion expand_query returns the query
\* unchanged and the token count of the query alone (the empty output
\* followed by the query).
C5_QueryCountedOnce ==
    (eq_pc = "returned" /\ eq_text = <<>>) =>
        eq_ret = <<eq_query, num_tokens(eq_query)>>

C5_Witness ==
    /\ eq_pc = "returned"
    /\ eq_text = <<>>
    /\ eq_query = <<"a", "b">>
    /\ eq_ret = <<eq_query, 2>>

====
